---- MODULE Spec2Model ----
(***************************************************************************)
(* pdm `import` command: Command.do_import of                              *)
(* src/pdm/cli/commands/import_cmd.py.                                     *)
(*                                                                         *)
(* A requirement string is a sequence of one-character strings, a TOML     *)
(* table is a function from key strings to values, and a list is a         *)
(* sequence.  One run of do_import is a walk of pc from "start" to "done"  *)
(* or "error"; the steps are cut at the calls to collaborators             *)
(* (check_fingerprint, convert, resolve_interpreter, write).               *)
(***************************************************************************)
EXTENDS Integers, Sequences, FiniteSets, TLC

VARIABLES
    pc,               \* position inside do_import
    format,           \* the `format` argument (NoKey when not given)
    reset_backend,    \* the `reset_backend` argument
    disk,             \* the manifest as stored on disk
    pyproject,        \* project.pyproject._data, the in-memory document
    key,              \* the loop/selection variable `key` (NoKey while unset)
    probed,           \* check_fingerprint calls in order, each <<key, result>>
    converted,        \* keys whose convert has been called, in order
    project_data,     \* first component of convert's result
    settings,         \* second component of convert's result
    buildsystem_data, \* the dict built at lines 81-84
    notices,          \* project.core.ui.echo calls, in order
    resolves,         \* resolve_interpreter calls, each the in_import flag
    writes,           \* number of project.pyproject.write() calls
    err,              \* "none", "usage" (PdmUsageError) or "collaborator"
    req,              \* stem development: the requirement string under test
    parts,            \* stem development: how req was built
    stem              \* stem development: result of req_get_stem(req)

vars ==
    <<pc, format, reset_backend, disk, pyproject, key, probed, converted,
      project_data, settings, buildsystem_data, notices, resolves, writes,
      err, req, parts, stem>>

runVars ==
    <<pc, format, reset_backend, disk, pyproject, key, probed, converted,
      project_data, settings, buildsystem_data, notices, resolves, writes,
      err>>

stemVars ==
    <<req, parts, stem>>

(***************************************************************************)
(* Bounds of the model.                                                    *)
(***************************************************************************)
NumFormats ==
    2
MaxExisting ==
    1
MaxImported ==
    2
MaxInserted ==
    1

(***************************************************************************)
(* req_get_stem (lines 59-64).                                             *)
(***************************************************************************)
OpChars ==
    {"<", "=", ">", "~"}

NumChars ==
    {"0", "1", "2", "3", "4", "5", "6", "7", "8", "9", "."}

\* re.sub(" ", "", stem): every U+0020 is removed, nothing else.
StripSpaces(s) ==
    SelectSeq(s, LAMBDA c : c # " ")

\* [<=>~]+[0-9.]+ spanning exactly s[j..e]
ConstraintAt(s, j, e) ==
    \E k \in (j + 1)..e :
        /\ \A m \in j..(k - 1) : s[m] \in OpChars
        /\ \A m \in k..e : s[m] \in NumChars

\* \[[^]]+\] spanning exactly s[i..(j-1)]
ExtrasAt(s, i, j) ==
    /\ j - 1 >= i + 2
    /\ s[i] = "["
    /\ s[j - 1] = "]"
    /\ \A m \in (i + 1)..(j - 2) : s[m] # "]"

\* (\[[^]]+\])?([<=>~]+[0-9.]+$) matching s[i..e]
MatchAt(s, i, e) ==
    \/ ConstraintAt(s, i, e)
    \/ \E j \in (i + 3)..e : ExtrasAt(s, i, j) /\ ConstraintAt(s, j, e)

\* Where `$` can match: at the very end, or just before a final newline.
\* The numeric class never consumes the newline, so the end is forced.
MatchEnd(s) ==
    IF Len(s) > 0 /\ s[Len(s)] = "\n" THEN Len(s) - 1 ELSE Len(s)

\* re.sub replaces the leftmost match; the pattern is anchored at the end,
\* so there is at most one replacement.
StripSuffix(s) ==
    LET e == MatchEnd(s)
        starts == {i \in 1..e : MatchAt(s, i, e)}
    IN  IF starts = {}
        THEN s
        ELSE LET i == CHOOSE x \in starts : \A y \in starts : x <= y
             IN  SubSeq(s, 1, i - 1) \o SubSeq(s, e + 1, Len(s))

req_get_stem(r) ==
    StripSuffix(StripSpaces(r))

(***************************************************************************)
(* Values of the model: tables, lists, input domains.                      *)
(***************************************************************************)
EmptyTable ==
    <<>>

\* d[k] = v, as a Python item assignment (insert or overwrite).
Put(d, k, v) ==
    (k :> v) @@ d

\* d without the keys in ks (dict.pop of each).
Without(d, ks) ==
    [k \in (DOMAIN d) \ ks |-> d[k]]

SeqsUpTo(S, n) ==
    UNION {[1..k -> S] : k \in 0..n}

\* The lists of SeqsUpTo(S, n) that hold no entry twice.
DistinctSeqsUpTo(S, n) ==
    {q \in SeqsUpTo(S, n) : \A i, j \in 1..Len(q) : i < j => q[i] # q[j]}

\* FORMATS, an ordered mapping: its keys in registration order.
FORMATS ==
    [i \in 1..NumFormats |-> <<"format", i>>]

NoKey ==
    <<"format", 0>>

Backends ==
    {"pdm.backend", "setuptools.build_meta"}

\* DEFAULT_BACKEND.build_system(): the canonical {requires, build-backend}.
DEFAULT_BACKEND_build_system ==
    ("requires" :> << <<"p", "d", "m", "-", "b", "a", "c", "k", "e", "n", "d">> >>)
        @@ ("build-backend" :> "pdm.backend")

\* Requirement strings used for build requirements.
Reqs ==
    { <<"a">>, <<"a", "[", "x", "]", ">", "1">>, <<"b", ">", "2">> }

\* f">={python.major}.{python.minor}"
RequiresPython(major, minor) ==
    <<">", "=", major, ".", minor>>

Interpreters ==
    { [major |-> 3, minor |-> 8], [major |-> 3, minor |-> 11] }

\* A [build-system] table: any subset of the two keys.
BuildSystemTables ==
    { [k \in D |-> IF k = "requires" THEN E ELSE B] :
        D \in SUBSET {"requires", "build-backend"},
        E \in SeqsUpTo(Reqs, MaxExisting),
        B \in Backends }

ProjectTables ==
    { ("name" :> "old"),
      ("name" :> "old") @@ ("requires-python" :> RequiresPython(3, 8)) }

\* tool.pdm with the legacy string-valued `build` key.
LegacyTool ==
    "pdm" :> ("build" :> [kind |-> "str", value |-> "build.py"])

\* The manifests do_import may be started on.
Manifests ==
    { t @@ p @@ b :
        t \in {EmptyTable, "tool" :> LegacyTool},
        p \in {EmptyTable} \cup {"project" :> x : x \in ProjectTables},
        b \in {EmptyTable} \cup {"build-system" :> x : x \in BuildSystemTables} }

\* What a converter may return as project_data.  A build-requires list names
\* no requirement twice verbatim (entries with one name and different
\* extras or constraints are enumerated).
ProjectDatas ==
    { ("name" :> "pkg") @@ rp @@ br @@ bb :
        rp \in {EmptyTable, "requires-python" :> RequiresPython(3, 9)},
        br \in {EmptyTable}
                 \cup {"-build-requires" :> L : L \in DistinctSeqsUpTo(Reqs, MaxImported)},
        bb \in {EmptyTable} \cup {"-build-backend" :> B : B \in Backends} }

\* What a converter returns as settings.
Settings ==
    "includes" :> "src"

(***************************************************************************)
(* pdm.cli.utils.merge_dictionary: keys absent from the target are         *)
(* inserted, list values are appended to the existing list, other values   *)
(* overwrite.  (No two mappings meet under one key in this model.)         *)
(***************************************************************************)
ListKeys ==
    {"requires"}

merge_dictionary(target, input) ==
    [k \in (DOMAIN target) \cup (DOMAIN input) |->
        IF k \notin DOMAIN input THEN target[k]
        ELSE IF k \notin DOMAIN target THEN input[k]
        ELSE IF k \in ListKeys THEN target[k] \o input[k]
        ELSE input[k]]

(***************************************************************************)
(* do_import, lines 66-75: format selection.                               *)
(***************************************************************************)
\* `if not format` is false: the hint is used (line 75).
HintGiven ==
    format # NoKey

\* Variant of NextProbe: the converters are visited last-registered first.
NextProbeReversed ==
    FORMATS[NumFormats - Len(probed)]

\* The converter the for loop of line 67 visits next.
NextProbe ==
    FORMATS[Len(probed) + 1]

UseHint ==
    /\ pc = "start"
    /\ HintGiven
    /\ key' = format
    /\ pc' = "convert"
    /\ UNCHANGED <<format, reset_backend, disk, pyproject, probed, converted,
                   project_data, settings, buildsystem_data, notices,
                   resolves, writes, err, stemVars>>

\* check_fingerprint returns true: break out of the loop.
ProbeMatch ==
    /\ pc = "start"
    /\ ~HintGiven
    /\ Len(probed) < NumFormats
    /\ probed' = Append(probed, <<NextProbe, TRUE>>)
    /\ key' = NextProbe
    /\ pc' = "convert"
    /\ UNCHANGED <<format, reset_backend, disk, pyproject, converted,
                   project_data, settings, buildsystem_data, notices,
                   resolves, writes, err, stemVars>>

\* check_fingerprint returns false: the loop goes on.
ProbeMiss ==
    /\ pc = "start"
    /\ ~HintGiven
    /\ Len(probed) < NumFormats
    /\ probed' = Append(probed, <<NextProbe, FALSE>>)
    /\ key' = NextProbe
    /\ UNCHANGED <<pc, format, reset_backend, disk, pyproject, converted,
                   project_data, settings, buildsystem_data, notices,
                   resolves, writes, err, stemVars>>

\* The for loop's else clause (lines 70-73).
NoFormat ==
    /\ pc = "start"
    /\ ~HintGiven
    /\ Len(probed) = NumFormats
    /\ pc' = "error"
    /\ err' = "usage"
    /\ UNCHANGED <<format, reset_backend, disk, pyproject, key, probed,
                   converted, project_data, settings, buildsystem_data,
                   notices, resolves, writes, stemVars>>

(***************************************************************************)
(* Line 78: FORMATS[key].convert(project, filename, options).              *)
(***************************************************************************)
Convert ==
    /\ pc = "convert"
    /\ \E pd \in ProjectDatas :
           project_data' = pd
    /\ settings' = Settings
    /\ converted' = Append(converted, key)
    /\ pc' = "merge"
    /\ UNCHANGED <<format, reset_backend, disk, pyproject, key, probed,
                   buildsystem_data, notices, resolves, writes, err, stemVars>>

ConvertFails ==
    /\ pc = "convert"
    /\ converted' = Append(converted, key)
    /\ pc' = "error"
    /\ err' = "collaborator"
    /\ UNCHANGED <<format, reset_backend, disk, pyproject, key, probed,
                   project_data, settings, buildsystem_data, notices,
                   resolves, writes, stemVars>>

(***************************************************************************)
(* Lines 79-99: extraction, scaffolding, the two merges.                   *)
(***************************************************************************)
ReservedKeys ==
    ("build-requires" :> "-build-requires") @@ ("build-backend" :> "-build-backend")

\* Lines 81-84.
ExtractBuildSystem(pd) ==
    [k \in {x \in DOMAIN ReservedKeys : ReservedKeys[x] \in DOMAIN pd} |->
        pd[ReservedKeys[k]]]

\* Lines 86-87.
ScaffoldTool(doc) ==
    IF "tool" \notin DOMAIN doc
    THEN Put(doc, "tool", "pdm" :> EmptyTable)
    ELSE IF "pdm" \notin DOMAIN doc["tool"]
         THEN Put(doc, "tool", Put(doc["tool"], "pdm", EmptyTable))
         ELSE doc

\* Lines 88-92.
NormalizeBuild(doc) ==
    LET pdm == doc["tool"]["pdm"]
    IN  IF "build" \in DOMAIN pdm /\ pdm["build"].kind = "str"
        THEN Put(doc, "tool",
                 Put(doc["tool"], "pdm",
                     Put(pdm, "build",
                         [kind |-> "table",
                          value |-> ("setup-script" :> pdm["build"].value)
                                        @@ ("run-setuptools" :> TRUE)])))
        ELSE doc

\* Lines 93-96 (the two comment lines are not modelled).
ScaffoldProject(doc) ==
    IF "project" \notin DOMAIN doc
    THEN Put(doc, "project", EmptyTable)
    ELSE doc

\* Lines 98-99.
MergeInto(doc, pd, st) ==
    LET d1 == Put(doc, "project", merge_dictionary(doc["project"], pd))
    IN  Put(d1, "tool",
            Put(d1["tool"], "pdm", merge_dictionary(d1["tool"]["pdm"], st)))

\* Variant of Merge: the document is written right after the two merges.
MergeAndWrite ==
    /\ pc = "merge"
    /\ buildsystem_data' = ExtractBuildSystem(project_data)
    /\ project_data' = Without(project_data, {ReservedKeys[k] : k \in DOMAIN ReservedKeys})
    /\ pyproject' = MergeInto(ScaffoldProject(NormalizeBuild(ScaffoldTool(pyproject))),
                              project_data', settings)
    /\ disk' = pyproject'
    /\ writes' = writes + 1
    /\ pc' = "buildsystem"
    /\ UNCHANGED <<format, reset_backend, key, probed, converted, settings,
                   notices, resolves, err, stemVars>>

Merge ==
    /\ pc = "merge"
    /\ buildsystem_data' = ExtractBuildSystem(project_data)
    /\ project_data' = Without(project_data, {ReservedKeys[k] : k \in DOMAIN ReservedKeys})
    /\ pyproject' = MergeInto(ScaffoldProject(NormalizeBuild(ScaffoldTool(pyproject))),
                              project_data', settings)
    /\ pc' = "buildsystem"
    /\ UNCHANGED <<format, reset_backend, disk, key, probed, converted,
                   settings, notices, resolves, writes, err, stemVars>>

(***************************************************************************)
(* Lines 100-143: build-system reconciliation.                             *)
(***************************************************************************)
\* Variant of ResetTable: the default declaration is merged into an existing
\* table instead of replacing it.
ResetTableMerged(doc) ==
    IF "build-system" \in DOMAIN doc
    THEN Put(doc, "build-system",
             merge_dictionary(doc["build-system"], DEFAULT_BACKEND_build_system))
    ELSE Put(doc, "build-system", DEFAULT_BACKEND_build_system)

\* Line 101.
ResetTable(doc) ==
    Put(doc, "build-system", DEFAULT_BACKEND_build_system)

\* Lines 104 and 118: the import supplies both fields.
HasBoth(bsd) ==
    "build-backend" \in DOMAIN bsd /\ "build-requires" \in DOMAIN bsd

\* Line 103 negated: a [build-system] table exists.
HasTable(doc) ==
    "build-system" \in DOMAIN doc

\* Line 120: {"requires", "build-backend"} <= pybuildsystem.keys()
IsComplete(pybuildsystem) ==
    {"requires", "build-backend"} \subseteq DOMAIN pybuildsystem

\* Lines 105-110: the new table, filled by merge_dictionary.
CreateTable(doc, bsd) ==
    Put(doc, "build-system",
        merge_dictionary(EmptyTable,
                         ("requires" :> bsd["build-requires"])
                             @@ ("build-backend" :> bsd["build-backend"])))

\* Variant of SameStem: whole requirement strings are compared.
SameString(existing_req, build_req) ==
    existing_req = build_req

\* Line 134: an existing requirement shadows an imported one.
SameStem(existing_req, build_req) ==
    req_get_stem(existing_req) = req_get_stem(build_req)

\* Lines 131-137: the imported requirements no existing one shadows.
build_req_new(requires, build_requires) ==
    SelectSeq(build_requires,
              LAMBDA build_req :
                  \A i \in 1..Len(requires) : ~SameStem(requires[i], build_req))

\* Lines 140-142.
AddRequires(doc, new) ==
    Put(doc, "build-system",
        merge_dictionary(doc["build-system"], "requires" :> new))

\* Branch (a), lines 100-101.
ResetBackend ==
    /\ pc = "buildsystem"
    /\ reset_backend
    /\ pyproject' = ResetTable(pyproject)
    /\ pc' = "python"
    /\ UNCHANGED <<format, reset_backend, disk, key, probed, converted,
                   project_data, settings, buildsystem_data, notices,
                   resolves, writes, err, stemVars>>

\* Branch (b), lines 103-112.
CreateBuildSystem ==
    /\ pc = "buildsystem"
    /\ ~reset_backend
    /\ ~HasTable(pyproject)
    /\ HasBoth(buildsystem_data)
    /\ pyproject' = CreateTable(pyproject, buildsystem_data)
    /\ notices' = notices
                    \o << <<"build-requires", pyproject'["build-system"]["requires"]>>,
                          <<"build-backend", pyproject'["build-system"]["build-backend"]>> >>
    /\ pc' = "python"
    /\ UNCHANGED <<format, reset_backend, disk, key, probed, converted,
                   project_data, settings, buildsystem_data, resolves, writes,
                   err, stemVars>>

\* Branch (b), lines 113-116.
CreateFails ==
    /\ pc = "buildsystem"
    /\ ~reset_backend
    /\ ~HasTable(pyproject)
    /\ ~HasBoth(buildsystem_data)
    /\ pc' = "error"
    /\ err' = "usage"
    /\ UNCHANGED <<format, reset_backend, disk, pyproject, key, probed,
                   converted, project_data, settings, buildsystem_data,
                   notices, resolves, writes, stemVars>>

\* Variant of Incomplete: the completeness check is left out.
IncompleteIgnored ==
    /\ pc = "buildsystem"
    /\ ~reset_backend
    /\ HasTable(pyproject)
    /\ HasBoth(buildsystem_data)
    /\ ~IsComplete(pyproject["build-system"])
    /\ pc' = "python"
    /\ UNCHANGED <<format, reset_backend, disk, pyproject, key, probed,
                   converted, project_data, settings, buildsystem_data,
                   notices, resolves, writes, err, stemVars>>

\* Variant of Incomplete: the completeness check does not depend on what the
\* import supplies.
IncompleteUnguarded ==
    /\ pc = "buildsystem"
    /\ ~reset_backend
    /\ HasTable(pyproject)
    /\ ~IsComplete(pyproject["build-system"])
    /\ pc' = "error"
    /\ err' = "usage"
    /\ UNCHANGED <<format, reset_backend, disk, pyproject, key, probed,
                   converted, project_data, settings, buildsystem_data,
                   notices, resolves, writes, stemVars>>

\* Branch (c), lines 118-123.
Incomplete ==
    /\ pc = "buildsystem"
    /\ ~reset_backend
    /\ HasTable(pyproject)
    /\ HasBoth(buildsystem_data)
    /\ ~IsComplete(pyproject["build-system"])
    /\ pc' = "error"
    /\ err' = "usage"
    /\ UNCHANGED <<format, reset_backend, disk, pyproject, key, probed,
                   converted, project_data, settings, buildsystem_data,
                   notices, resolves, writes, stemVars>>

\* Variant of Mismatch: the backend comparison is left out.
MismatchIgnored ==
    /\ pc = "buildsystem"
    /\ ~reset_backend
    /\ HasTable(pyproject)
    /\ HasBoth(buildsystem_data)
    /\ IsComplete(pyproject["build-system"])
    /\ pyproject["build-system"]["build-backend"] # buildsystem_data["build-backend"]
    /\ pc' = "python"
    /\ UNCHANGED <<format, reset_backend, disk, pyproject, key, probed,
                   converted, project_data, settings, buildsystem_data,
                   notices, resolves, writes, err, stemVars>>

\* Branch (c), lines 124-128.
Mismatch ==
    /\ pc = "buildsystem"
    /\ ~reset_backend
    /\ HasTable(pyproject)
    /\ HasBoth(buildsystem_data)
    /\ IsComplete(pyproject["build-system"])
    /\ pyproject["build-system"]["build-backend"] # buildsystem_data["build-backend"]
    /\ pc' = "error"
    /\ err' = "usage"
    /\ UNCHANGED <<format, reset_backend, disk, pyproject, key, probed,
                   converted, project_data, settings, buildsystem_data,
                   notices, resolves, writes, stemVars>>

\* Branch (c), lines 130-143, build_req_new non-empty.
MergeRequires ==
    /\ pc = "buildsystem"
    /\ ~reset_backend
    /\ HasTable(pyproject)
    /\ HasBoth(buildsystem_data)
    /\ IsComplete(pyproject["build-system"])
    /\ pyproject["build-system"]["build-backend"] = buildsystem_data["build-backend"]
    /\ LET new == build_req_new(pyproject["build-system"]["requires"],
                                buildsystem_data["build-requires"])
       IN  /\ new # <<>>
           /\ pyproject' = AddRequires(pyproject, new)
    /\ notices' = Append(notices,
                         <<"build-requires", pyproject'["build-system"]["requires"]>>)
    /\ pc' = "python"
    /\ UNCHANGED <<format, reset_backend, disk, key, probed, converted,
                   project_data, settings, buildsystem_data, resolves, writes,
                   err, stemVars>>

\* Branch (c), lines 130-139, build_req_new empty.
NothingNew ==
    /\ pc = "buildsystem"
    /\ ~reset_backend
    /\ HasTable(pyproject)
    /\ HasBoth(buildsystem_data)
    /\ IsComplete(pyproject["build-system"])
    /\ pyproject["build-system"]["build-backend"] = buildsystem_data["build-backend"]
    /\ build_req_new(pyproject["build-system"]["requires"],
                     buildsystem_data["build-requires"]) = <<>>
    /\ pc' = "python"
    /\ UNCHANGED <<format, reset_backend, disk, pyproject, key, probed,
                   converted, project_data, settings, buildsystem_data,
                   notices, resolves, writes, err, stemVars>>

\* Branch (d): no branch of the if/elif chain of lines 100-118 is taken.
NoAction ==
    /\ pc = "buildsystem"
    /\ ~reset_backend
    /\ HasTable(pyproject)
    /\ ~HasBoth(buildsystem_data)
    /\ pc' = "python"
    /\ UNCHANGED <<format, reset_backend, disk, pyproject, key, probed,
                   converted, project_data, settings, buildsystem_data,
                   notices, resolves, writes, err, stemVars>>

(***************************************************************************)
(* Lines 145-153: requires-python default, then the write.                 *)
(***************************************************************************)
\* Variant of LacksRequiresPython: a misspelt key is looked up.
LacksWrongKey(doc) ==
    "python-requires" \notin DOMAIN doc["project"]

\* Line 145.
LacksRequiresPython(doc) ==
    "requires-python" \notin DOMAIN doc["project"]

\* Lines 147-148.
SetRequiresPython(doc, python) ==
    Put(doc, "project",
        Put(doc["project"], "requires-python",
            RequiresPython(python.major, python.minor)))

SkipPython ==
    /\ pc = "python"
    /\ ~LacksRequiresPython(pyproject)
    /\ pc' = "write"
    /\ UNCHANGED <<format, reset_backend, disk, pyproject, key, probed,
                   converted, project_data, settings, buildsystem_data,
                   notices, resolves, writes, err, stemVars>>

\* Lines 146-152; resolves records the in_import argument of each call.
ResolvePython ==
    /\ pc = "python"
    /\ LacksRequiresPython(pyproject)
    /\ resolves' = Append(resolves, TRUE)
    /\ \E python \in Interpreters :
           /\ pyproject' = SetRequiresPython(pyproject, python)
           /\ notices' = Append(notices,
                                <<"requires-python",
                                  RequiresPython(python.major, python.minor)>>)
    /\ pc' = "write"
    /\ UNCHANGED <<format, reset_backend, disk, key, probed, converted,
                   project_data, settings, buildsystem_data, writes, err,
                   stemVars>>

ResolveFails ==
    /\ pc = "python"
    /\ LacksRequiresPython(pyproject)
    /\ resolves' = Append(resolves, TRUE)
    /\ pc' = "error"
    /\ err' = "collaborator"
    /\ UNCHANGED <<format, reset_backend, disk, pyproject, key, probed,
                   converted, project_data, settings, buildsystem_data,
                   notices, writes, stemVars>>

\* Line 153.
Write ==
    /\ pc = "write"
    /\ disk' = pyproject
    /\ writes' = writes + 1
    /\ pc' = "done"
    /\ UNCHANGED <<format, reset_backend, pyproject, key, probed, converted,
                   project_data, settings, buildsystem_data, notices,
                   resolves, err, stemVars>>

(***************************************************************************)
(* One call of do_import on a loaded manifest.                             *)
(***************************************************************************)
Init ==
    /\ pc = "start"
    /\ format \in {NoKey} \cup {FORMATS[i] : i \in 1..NumFormats}
    /\ reset_backend \in BOOLEAN
    /\ disk \in Manifests
    /\ pyproject = disk
    /\ key = NoKey
    /\ probed = <<>>
    /\ converted = <<>>
    /\ project_data = EmptyTable
    /\ settings = EmptyTable
    /\ buildsystem_data = EmptyTable
    /\ notices = <<>>
    /\ resolves = <<>>
    /\ writes = 0
    /\ err = "none"
    /\ req = <<>>
    /\ parts = EmptyTable
    /\ stem = <<>>

Next ==
    \/ UseHint
    \/ ProbeMatch
    \/ ProbeMiss
    \/ NoFormat
    \/ Convert
    \/ ConvertFails
    \/ Merge
    \/ ResetBackend
    \/ CreateBuildSystem
    \/ CreateFails
    \/ Incomplete
    \/ Mismatch
    \/ MergeRequires
    \/ NothingNew
    \/ NoAction
    \/ SkipPython
    \/ ResolvePython
    \/ ResolveFails
    \/ Write

Spec ==
    Init /\ [][Next]_vars

(***************************************************************************)
(* Stem development: req_get_stem applied to requirement strings built     *)
(* from a name, an optional extras group, an optional version constraint   *)
(* and inserted whitespace.                                                *)
(***************************************************************************)
Names ==
    { <<"f", "o", "o">>, <<"a", "1">> }

ExtrasGroups ==
    { <<>>, <<"[", "e", "]">> }

Constraints ==
    { <<>>, <<">", "=", "1", ".", "2">>, <<"~", "=", "3">> }

Whitespace ==
    {" ", "\t", "\n"}

InsertAt(s, p, c) ==
    SubSeq(s, 1, p) \o <<c>> \o SubSeq(s, p + 1, Len(s))

Assemble(p) ==
    p.name \o p.extras \o p.constraint

StemInit ==
    /\ pc = "build"
    /\ parts \in [name : Names, extras : ExtrasGroups, constraint : Constraints]
    /\ req = Assemble(parts)
    /\ stem = <<>>
    /\ format = NoKey
    /\ reset_backend = FALSE
    /\ disk = EmptyTable
    /\ pyproject = EmptyTable
    /\ key = NoKey
    /\ probed = <<>>
    /\ converted = <<>>
    /\ project_data = EmptyTable
    /\ settings = EmptyTable
    /\ buildsystem_data = EmptyTable
    /\ notices = <<>>
    /\ resolves = <<>>
    /\ writes = 0
    /\ err = "none"

InsertWhitespace ==
    /\ pc = "build"
    /\ Len(req) < Len(Assemble(parts)) + MaxInserted
    /\ \E p \in 0..Len(req), c \in Whitespace :
           req' = InsertAt(req, p, c)
    /\ UNCHANGED <<parts, stem, runVars>>

ApplyStem ==
    /\ pc = "build"
    /\ stem' = req_get_stem(req)
    /\ pc' = "stemmed"
    /\ UNCHANGED <<req, parts, format, reset_backend, disk, pyproject, key,
                   probed, converted, project_data, settings,
                   buildsystem_data, notices, resolves, writes, err>>

StemNext ==
    \/ InsertWhitespace
    \/ ApplyStem

StemSpec ==
    StemInit /\ [][StemNext]_vars

(***************************************************************************)
(* Properties.                                                             *)
(*                                                                         *)
(* Until the write, `disk` is the manifest the run started on, so a state  *)
(* with pc in {"python", "write"} shows the prior table (in disk) next to  *)
(* the reconciled one (in pyproject).                                      *)
(***************************************************************************)
Reconciled ==
    pc \in {"python", "write"}

\* The bare package name of a requirement of Reqs, read off the string
\* (every name used there is one character long).
NameOf(r) ==
    <<r[1]>>

\* The echo calls of the build-system step.
BuildNotices ==
    SelectSeq(notices, LAMBDA n : n[1] # "requires-python")

PythonNotices ==
    SelectSeq(notices, LAMBDA n : n[1] = "requires-python")

PriorHasRequiresPython ==
    "project" \in DOMAIN disk /\ "requires-python" \in DOMAIN disk["project"]

\* No reset, complete prior table, import supplies both, backends agree.
BranchC ==
    /\ ~reset_backend
    /\ HasTable(disk)
    /\ IsComplete(disk["build-system"])
    /\ HasBoth(buildsystem_data)
    /\ disk["build-system"]["build-backend"] = buildsystem_data["build-backend"]

\* No reset, prior table, import supplies at most one of the two fields.
BranchD ==
    /\ ~reset_backend
    /\ HasTable(disk)
    /\ ~HasBoth(buildsystem_data)

\* C1: with reset_backend = true no build-system usage error is raised (a
\* usage error can only come from format selection, before any conversion)
\* and from the end of reconciliation on, in memory and then on disk,
\* build-system is exactly DEFAULT_BACKEND.build_system().
C1_ResetWins ==
    reset_backend =>
        /\ (pc = "error" /\ err = "usage" => converted = <<>>)
        /\ (pc \in {"python", "write", "done"} =>
                /\ HasTable(pyproject)
                /\ pyproject["build-system"] = DEFAULT_BACKEND_build_system)
        /\ (pc = "done" =>
                /\ HasTable(disk)
                /\ disk["build-system"] = DEFAULT_BACKEND_build_system)

C1_Witness ==
    /\ reset_backend
    /\ pc = "write"
    /\ HasTable(disk)
    /\ IsComplete(disk["build-system"])
    /\ disk["build-system"] # DEFAULT_BACKEND_build_system
    /\ HasBoth(buildsystem_data)
    /\ buildsystem_data["build-backend"] = "setuptools.build_meta"
    /\ pyproject["build-system"] = DEFAULT_BACKEND_build_system

\* The point of a run where it is settled whether a usage error is raised.
Decided ==
    (pc = "error" /\ err = "usage") \/ Reconciled

NoFormatMatches ==
    /\ ~HintGiven
    /\ Len(probed) = NumFormats
    /\ \A i \in 1..Len(probed) : ~probed[i][2]

CannotCreate ==
    ~HasTable(disk) /\ ~reset_backend /\ ~HasBoth(buildsystem_data)

PriorIncomplete ==
    /\ HasTable(disk)
    /\ ~IsComplete(disk["build-system"])
    /\ HasBoth(buildsystem_data)

BackendDiffers ==
    /\ HasTable(disk)
    /\ "build-backend" \in DOMAIN disk["build-system"]
    /\ "build-backend" \in DOMAIN buildsystem_data
    /\ disk["build-system"]["build-backend"] # buildsystem_data["build-backend"]

\* C2 as stated: a usage error is raised exactly when (1) no format is given
\* and no fingerprint matches, (2) no table, no reset and the import lacks a
\* field, (3) the prior table is incomplete and the import supplies both, or
\* (4) the prior table's build-backend differs from the imported one.
C2_Original ==
    Decided =>
        ((err = "usage") <=>
            \/ NoFormatMatches
            \/ /\ converted # <<>>
               /\ (CannotCreate \/ PriorIncomplete \/ BackendDiffers))

\* C2, amended: conditions (3) and (4) apply only when reset is not
\* requested, and (4) only when the import supplies both fields; a usage
\* error ends the run and none is raised after reconciliation.
C2_UsageErrors ==
    /\ (Decided =>
            ((err = "usage") <=>
                \/ NoFormatMatches
                \/ /\ converted # <<>>
                   /\ \/ CannotCreate
                      \/ ~reset_backend /\ PriorIncomplete
                      \/ ~reset_backend /\ HasBoth(buildsystem_data) /\ BackendDiffers))
    /\ (err = "usage" => pc = "error")
    /\ (pc = "done" => err = "none")

C2_Witness ==
    /\ pc = "error"
    /\ err = "usage"
    /\ ~reset_backend
    /\ HasTable(disk)
    /\ IsComplete(disk["build-system"])
    /\ HasBoth(buildsystem_data)
    /\ BackendDiffers

\* C3 as stated: whenever the write is reached or done, the build-system
\* table is present and complete and its build-backend equals an imported
\* build-backend, for both values of reset_backend.
C3_Original ==
    pc \in {"write", "done"} =>
        /\ HasTable(pyproject)
        /\ IsComplete(pyproject["build-system"])
        /\ ("build-backend" \in DOMAIN buildsystem_data =>
                pyproject["build-system"]["build-backend"]
                    = buildsystem_data["build-backend"])

\* C3, amended: whenever the write is reached the table is present; with
\* reset it is the default declaration; without reset and with both fields
\* imported it is complete and carries the imported build-backend; without
\* reset and with at most one field imported it is the prior table as it was.
C3_TableAtWrite ==
    pc \in {"write", "done"} =>
        /\ HasTable(pyproject)
        /\ (reset_backend =>
                pyproject["build-system"] = DEFAULT_BACKEND_build_system)
        /\ (~reset_backend /\ HasBoth(buildsystem_data) =>
                /\ IsComplete(pyproject["build-system"])
                /\ pyproject["build-system"]["build-backend"]
                       = buildsystem_data["build-backend"])
        /\ (pc = "write" /\ ~reset_backend /\ ~HasBoth(buildsystem_data) =>
                /\ HasTable(disk)
                /\ pyproject["build-system"] = disk["build-system"])

C3_Witness ==
    /\ pc = "write"
    /\ ~reset_backend
    /\ HasBoth(buildsystem_data)
    /\ HasTable(disk)
    /\ Len(pyproject["build-system"]["requires"])
           > Len(disk["build-system"]["requires"])

\* The requires list after reconciling the list L into a table whose
\* requires list is R (branch (c), lines 131-142).
RequiresAfter(R, L) ==
    IF build_req_new(R, L) = <<>>
    THEN R
    ELSE merge_dictionary("requires" :> R, "requires" :> build_req_new(R, L))["requires"]

\* C4 as stated: in branch (c), reconciling the same imported list a second
\* time changes nothing, and no entry appended to requires has the stem of
\* another entry of the list.
C4_Original ==
    Reconciled /\ BranchC =>
        LET E == disk["build-system"]["requires"]
            L == buildsystem_data["build-requires"]
            R == pyproject["build-system"]["requires"]
        IN  /\ RequiresAfter(R, L) = R
            /\ \A i, j \in 1..Len(R) :
                   i < j /\ j > Len(E) => NameOf(R[i]) # NameOf(R[j])

C7_Original ==
    /\ (writes = 0 /\ PriorHasRequiresPython => resolves = <<>>)
    /\ (pc = "write" /\ PriorHasRequiresPython =>
            pyproject["project"]["requires-python"]
                = disk["project"]["requires-python"])
    /\ (pc = "write" /\ ~PriorHasRequiresPython
            /\ "requires-python" \notin DOMAIN project_data =>
                /\ resolves = <<TRUE>>
                /\ \E python \in Interpreters :
                       /\ pyproject["project"]["requires-python"]
                              = <<">", "=", python.major, ".", python.minor>>
                       /\ PythonNotices
                              = << <<"requires-python",
                                     <<">", "=", python.major, ".", python.minor>> >> >>)

\* C7, amended: a requires-python present before the import keeps the
\* resolver from being called, and its value after reconciliation is the one
\* of project_data when project_data has one, else the prior value; when the
\* project table has none after the metadata merge and the run reaches the
\* write, the resolver was called exactly once, with in_import = true, the
\* value is ">=major.minor" of its result and one notice reports it.
C7_RequiresPython ==
    /\ (writes = 0 /\ PriorHasRequiresPython => resolves = <<>>)
    /\ (pc = "write" /\ PriorHasRequiresPython =>
            pyproject["project"]["requires-python"]
                = IF "requires-python" \in DOMAIN project_data
                  THEN project_data["requires-python"]
                  ELSE disk["project"]["requires-python"])
    /\ (pc = "write" /\ "requires-python" \in DOMAIN project_data =>
            /\ resolves = <<>>
            /\ PythonNotices = <<>>
            /\ pyproject["project"]["requires-python"]
                   = project_data["requires-python"])
    /\ (pc = "write" /\ ~PriorHasRequiresPython
            /\ "requires-python" \notin DOMAIN project_data =>
                /\ resolves = <<TRUE>>
                /\ \E python \in Interpreters :
                       /\ pyproject["project"]["requires-python"]
                              = <<">", "=", python.major, ".", python.minor>>
                       /\ PythonNotices
                              = << <<"requires-python",
                                     <<">", "=", python.major, ".", python.minor>> >> >>)
    /\ Len(resolves) <= 1

C7_Witness ==
    /\ pc = "write"
    /\ PriorHasRequiresPython
    /\ "requires-python" \in DOMAIN project_data
    /\ pyproject["project"]["requires-python"] # disk["project"]["requires-python"]
    /\ resolves = <<>>

\* C8: with a hint no fingerprint check is called and the hinted converter
\* converts; without one the converters are probed in registration order up
\* to and including the first match, which is the one that converts, once;
\* with no match a usage error is raised, nothing is converted and the
\* document is as loaded.
C8_FormatSelection ==
    /\ (HintGiven =>
            /\ probed = <<>>
            /\ key \in {NoKey, format}
            /\ pc \notin {"start", "convert"} => converted = <<format>>)
    /\ (~HintGiven =>
            /\ Len(probed) <= NumFormats
            /\ \A i \in 1..Len(probed) :
                   /\ probed[i][1] = FORMATS[i]
                   /\ (probed[i][2] => i = Len(probed))
            /\ (pc \notin {"start", "error"} \/ converted # <<>> =>
                   /\ probed # <<>>
                   /\ probed[Len(probed)][2]
                   /\ key = probed[Len(probed)][1])
            /\ (pc = "error" /\ converted = <<>> =>
                   /\ err = "usage"
                   /\ NoFormatMatches
                   /\ pyproject = disk
                   /\ writes = 0))
    /\ Len(converted) <= 1
    /\ (converted # <<>> => converted = <<key>>)
    /\ (pc \in {"merge", "buildsystem", "python", "write", "done"} =>
            converted = <<key>>)
    /\ (pc \in {"start", "convert"} => converted = <<>> /\ pyproject = disk)

C8_Witness ==
    /\ ~HintGiven
    /\ pc = "merge"
    /\ Len(probed) = 2
    /\ ~probed[1][2]
    /\ probed[2][2]
    /\ converted = <<FORMATS[2]>>

\* C9 as stated: for a requirement string built from a name, an optional
\* extras group, an optional version constraint and whitespace inserted
\* anywhere, req_get_stem returns the name alone.
C9_Original ==
    pc = "stemmed" => stem = parts.name

\* The build-system branch whose actions are enabled.
EnabledBranches ==
    {b \in {"a", "b", "c", "d"} :
        \/ b = "a" /\ ENABLED ResetBackend
        \/ b = "b" /\ ENABLED (CreateBuildSystem \/ CreateFails)
        \/ b = "c" /\ ENABLED (Incomplete \/ Mismatch \/ MergeRequires \/ NothingNew)
        \/ b = "d" /\ ENABLED NoAction}

\* C10: in branch (d) reconciliation leaves the table as it was, echoes
\* nothing, raises no usage error and goes on to the requires-python step;
\* and at the build-system step exactly one of the branches (a)-(d) applies,
\* the one the claim's conditions name.
C10_NoAction ==
    /\ (Reconciled /\ BranchD =>
            /\ pyproject["build-system"] = disk["build-system"]
            /\ BuildNotices = <<>>)
    /\ (pc = "error" /\ err = "usage" /\ converted # <<>> => ~BranchD)
    /\ (pc = "buildsystem" =>
            EnabledBranches =
                IF reset_backend THEN {"a"}
                ELSE IF ~HasTable(disk) THEN {"b"}
                ELSE IF HasBoth(buildsystem_data) THEN {"c"}
                ELSE {"d"})

C10_Witness ==
    /\ pc = "write"
    /\ BranchD
    /\ ~IsComplete(disk["build-system"])
    /\ DOMAIN buildsystem_data = {"build-backend"}
    /\ pyproject["build-system"] = disk["build-system"]

====
